---- MODULE Spec2Model ----
(***************************************************************************)
(* Cafe ordering system: the Menu / Order domain model of                  *)
(* src/project/qt/main_model.py (identical copies live in the three        *)
(* main_single_file.py variants) and the finalise handler of the           *)
(* front-ends that drives it.                                              *)
(*                                                                         *)
(* Prices are kept in cents (integers) where the code keeps floats.        *)
(* A Python dict that the code iterates (Order._items) is a sequence of    *)
(* [name, count] entries in insertion order; Menu._stock, which is only    *)
(* ever indexed, is a function from names to integers.                     *)
(***************************************************************************)
EXTENDS Integers, Sequences, FiniteSets, TLC

\* ------------------------------------------------------------------ bounds
\* Finalise / sell_item are not taken once a stock would fall below -MaxDebt.
MaxDebt == 2
\* sell_item with a negative count is not taken once a stock would exceed
\* STOCK + MaxSurplus.
MaxSurplus == 1

\* ------------------------------------------------------- program constants
\* Menu.__post_init__: every item starts with 20 in stock.
STOCK == 20
\* Order.MAX_ITEM_COUNT
MAX_ITEM_COUNT == 2

\* The menu file read by read_menu(): two items in two categories.
Coffee == [name |-> "Coffee", price |-> 350, category |-> "DRINKS"]
Pie == [name |-> "Pie", price |-> 420, category |-> "FOOD"]
MenuFile == <<Coffee, Pie>>

\* MenuCategory
MenuCategory == {"FOOD", "RICE", "DRINKS"}

NoItem == [name |-> "-", price |-> 0, category |-> "-"]

VARIABLES
    menu_items,   \* Menu._items: the list of MenuItem
    stock,        \* Menu._stock: name -> remaining stock
    order_items,  \* Order._items of the active order (insertion order)
    last,         \* the last call and how it ended
    before,       \* Order._items of the active order before the last call
    round_trip,   \* the last two calls were add_item(i) ok, then remove_item(i)
    units_sold,   \* history: name -> units sold so far (finalised orders, sell_item)
    window,       \* the FinaliseOrderWindow of the Qt front-end
    ask,          \* the get_valid_int call in progress: its arguments and user_int
    program       \* the text CafeProgram: _is_running and the place reached in run

vars == <<menu_items, stock, order_items, last, before, round_trip,
          units_sold, window, ask, program>>

\* The parts of the front-ends that only some specifications follow.
front == <<window, ask, program>>

\* The value of a part of a front-end in a specification that leaves it out.
Absent == [pc |-> "absent"]

NoFront ==
    /\ window = Absent
    /\ ask = Absent
    /\ program = Absent

\* ---------------------------------------------------------- Python dict
\* `for k in d.keys()`
Keys(d) == {d[i].name : i \in 1..Len(d)}

\* `k in d.keys()`
Has(d, k) == k \in Keys(d)

\* `d[k]` for a key that is present
Get(d, k) == LET i == CHOOSE i \in 1..Len(d) : d[i].name = k IN d[i].count

\* `d[k] = v`: an existing key keeps its place, a new key goes last
Put(d, k, v) ==
    IF Has(d, k)
    THEN [i \in 1..Len(d) |-> IF d[i].name = k THEN [name |-> k, count |-> v] ELSE d[i]]
    ELSE Append(d, [name |-> k, count |-> v])

\* `del d[k]`
Del(d, k) == SelectSeq(d, LAMBDA e : e.name # k)

\* ------------------------------------------------------------------ Menu
\* `stk[k] = v` on the stock dict: the key is added or overwritten.
StockSet(stk, k, v) == [n \in DOMAIN stk \cup {k} |-> IF n = k THEN v ELSE stk[n]]

\* __post_init__ adding 20 per occurrence of a name
\* (`self._stock[name] = self._stock.get(name, 0) + 20`).
RECURSIVE post_init_accumulating(_, _, _)
post_init_accumulating(items, i, stk) ==
    IF i > Len(items) THEN stk
    ELSE post_init_accumulating(
             items, i + 1,
             StockSet(stk, items[i].name,
                      IF items[i].name \in DOMAIN stk
                      THEN stk[items[i].name] + STOCK ELSE STOCK))

\* Menu.__post_init__: the loop `for item in self._items`, from position i.
RECURSIVE post_init_from(_, _, _)
post_init_from(items, i, stk) ==
    IF i > Len(items) THEN stk
    ELSE post_init_from(items, i + 1, StockSet(stk, items[i].name, STOCK))

\* Menu.__post_init__: self._stock = {}, then one entry of 20 per item.
post_init(items) == post_init_from(items, 1, [n \in {} |-> 0])

\* item_named that keeps scanning and returns the last match.
RECURSIVE item_named_last(_, _, _)
item_named_last(items, name, i) ==
    IF i > Len(items) THEN [err |-> "NotFound", item |-> NoItem]
    ELSE LET rest == item_named_last(items, name, i + 1)
         IN IF rest.err = "none" THEN rest
            ELSE IF items[i].name = name THEN [err |-> "none", item |-> items[i]]
            ELSE rest

\* item_named whose loop stops before the last item of the list.
RECURSIVE item_named_short(_, _, _)
item_named_short(items, name, i) ==
    IF i > Len(items) - 1 THEN [err |-> "NotFound", item |-> NoItem]
    ELSE IF items[i].name = name THEN [err |-> "none", item |-> items[i]]
    ELSE item_named_short(items, name, i + 1)

\* Menu.item_named: the loop `for item in self._items`, from position i.
RECURSIVE item_named_from(_, _, _)
item_named_from(items, name, i) ==
    IF i > Len(items) THEN [err |-> "NotFound", item |-> NoItem]
    ELSE IF items[i].name = name THEN [err |-> "none", item |-> items[i]]
    ELSE item_named_from(items, name, i + 1)

item_named(items, name) == item_named_from(items, name, 1)

\* Menu.items_in_category: the items of a category, in list order.
items_in_category(items, category) ==
    SelectSeq(items, LAMBDA it : it.category = category)

\* stock_for_item reading the map with a default (`self._stock.get(name, 0)`).
stock_for_item_default(stk, item) ==
    IF item.name \in DOMAIN stk
    THEN [err |-> "none", value |-> stk[item.name]]
    ELSE [err |-> "none", value |-> 0]

\* Menu.stock_for_item: self._stock[item.name], KeyError when absent.
stock_for_item(stk, item) ==
    IF item.name \in DOMAIN stk
    THEN [err |-> "none", value |-> stk[item.name]]
    ELSE [err |-> "KeyError", value |-> 0]

\* Menu.sell_item: stock minus count, no check of count.
sell_item_adding(stk, item, count) ==
    IF item.name \in DOMAIN stk
    THEN [err |-> "none", stock |-> [stk EXCEPT ![item.name] = stk[item.name] + count]]
    ELSE [err |-> "KeyError", stock |-> stk]

\* sell_item that never lets the stock fall below 0 (max(0, stock - count)).
sell_item_clamped(stk, item, count) ==
    IF item.name \in DOMAIN stk
    THEN [err |-> "none",
          stock |-> [stk EXCEPT ![item.name] =
                       IF stk[item.name] - count < 0 THEN 0 ELSE stk[item.name] - count]]
    ELSE [err |-> "KeyError", stock |-> stk]

\* sell_item that refuses a count that is not positive or exceeds the stock.
sell_item_validating(stk, item, count) ==
    IF item.name \in DOMAIN stk
    THEN IF count <= 0 \/ count > stk[item.name]
         THEN [err |-> "ValueError", stock |-> stk]
         ELSE [err |-> "none",
               stock |-> [stk EXCEPT ![item.name] = stk[item.name] - count]]
    ELSE [err |-> "KeyError", stock |-> stk]

sell_item(stk, item, count) ==
    IF item.name \in DOMAIN stk
    THEN [err |-> "none", stock |-> [stk EXCEPT ![item.name] = stk[item.name] - count]]
    ELSE [err |-> "KeyError", stock |-> stk]

\* ----------------------------------------------------------------- Order
\* order_total with `running_total + item.price`: the count is forgotten.
RECURSIVE order_total_ignoring_count(_, _, _, _)
order_total_ignoring_count(items, d, i, running_total) ==
    IF i > Len(d) THEN [err |-> "none", value |-> running_total]
    ELSE LET found == item_named(items, d[i].name)
         IN IF found.err # "none" THEN [err |-> found.err, value |-> 0]
            ELSE order_total_ignoring_count(items, d, i + 1,
                                            running_total + found.item.price)

\* Order.order_total: the loop over self._items.keys(), from entry i with
\* running_total so far; item_named may raise.
RECURSIVE order_total_from(_, _, _, _)
order_total_from(items, d, i, running_total) ==
    IF i > Len(d) THEN [err |-> "none", value |-> running_total]
    ELSE LET found == item_named(items, d[i].name)
         IN IF found.err # "none" THEN [err |-> found.err, value |-> 0]
            ELSE order_total_from(items, d, i + 1,
                                  running_total + found.item.price * d[i].count)

order_total(items, d) == order_total_from(items, d, 1, 0)

\* add_item raising the cap error one too early (`count + 1 == MAX_ITEM_COUNT`).
add_item_cap_early(stk, d, item) ==
    LET s == stock_for_item(stk, item)
    IN IF s.err # "none" THEN [err |-> s.err, items |-> d]
       ELSE IF s.value = 0 THEN [err |-> "OutOfStock", items |-> d]
       ELSE IF Has(d, item.name)
            THEN IF Get(d, item.name) + 1 = MAX_ITEM_COUNT
                 THEN [err |-> "LimitExceeded", items |-> d]
                 ELSE [err |-> "none",
                       items |-> Put(d, item.name, Get(d, item.name) + 1)]
            ELSE [err |-> "none", items |-> Put(d, item.name, 1)]

\* add_item without the cap check.
add_item_uncapped(stk, d, item) ==
    LET s == stock_for_item(stk, item)
    IN IF s.err # "none" THEN [err |-> s.err, items |-> d]
       ELSE IF s.value = 0 THEN [err |-> "OutOfStock", items |-> d]
       ELSE IF Has(d, item.name)
            THEN [err |-> "none", items |-> Put(d, item.name, Get(d, item.name) + 1)]
            ELSE [err |-> "none", items |-> Put(d, item.name, 1)]

\* add_item with the cap check moved in front of the stock check.
add_item_cap_first(stk, d, item) ==
    LET s == stock_for_item(stk, item)
    IN IF s.err # "none" THEN [err |-> s.err, items |-> d]
       ELSE IF Has(d, item.name) /\ Get(d, item.name) = MAX_ITEM_COUNT
            THEN [err |-> "LimitExceeded", items |-> d]
       ELSE IF s.value = 0 THEN [err |-> "OutOfStock", items |-> d]
       ELSE IF Has(d, item.name)
            THEN [err |-> "none", items |-> Put(d, item.name, Get(d, item.name) + 1)]
            ELSE [err |-> "none", items |-> Put(d, item.name, 1)]

\* add_item whose stock check counts what the order already holds
\* (`stock_for_item(item) - count_in_order <= 0`).
add_item_reserved(stk, d, item) ==
    LET s == stock_for_item(stk, item)
        held == IF Has(d, item.name) THEN Get(d, item.name) ELSE 0
    IN IF s.err # "none" THEN [err |-> s.err, items |-> d]
       ELSE IF s.value - held <= 0 THEN [err |-> "OutOfStock", items |-> d]
       ELSE IF Has(d, item.name)
            THEN IF Get(d, item.name) = MAX_ITEM_COUNT
                 THEN [err |-> "LimitExceeded", items |-> d]
                 ELSE [err |-> "none",
                       items |-> Put(d, item.name, Get(d, item.name) + 1)]
            ELSE [err |-> "none", items |-> Put(d, item.name, 1)]

\* add_item without the stock check.
add_item_unchecked(stk, d, item) ==
    LET s == stock_for_item(stk, item)
    IN IF s.err # "none" THEN [err |-> s.err, items |-> d]
       ELSE IF Has(d, item.name)
            THEN IF Get(d, item.name) = MAX_ITEM_COUNT
                 THEN [err |-> "LimitExceeded", items |-> d]
                 ELSE [err |-> "none",
                       items |-> Put(d, item.name, Get(d, item.name) + 1)]
            ELSE [err |-> "none", items |-> Put(d, item.name, 1)]

\* add_item that refuses every stock that is not positive.
add_item_positive_only(stk, d, item) ==
    LET s == stock_for_item(stk, item)
    IN IF s.err # "none" THEN [err |-> s.err, items |-> d]
       ELSE IF s.value <= 0 THEN [err |-> "OutOfStock", items |-> d]
       ELSE IF Has(d, item.name)
            THEN IF Get(d, item.name) = MAX_ITEM_COUNT
                 THEN [err |-> "LimitExceeded", items |-> d]
                 ELSE [err |-> "none",
                       items |-> Put(d, item.name, Get(d, item.name) + 1)]
            ELSE [err |-> "none", items |-> Put(d, item.name, 1)]

\* add_item that inserts the key before the checks.
add_item_insert_first(stk, d, item) ==
    LET e == IF Has(d, item.name) THEN d ELSE Put(d, item.name, 0)
        s == stock_for_item(stk, item)
    IN IF s.err # "none" THEN [err |-> s.err, items |-> e]
       ELSE IF s.value = 0 THEN [err |-> "OutOfStock", items |-> e]
       ELSE IF Get(e, item.name) = MAX_ITEM_COUNT
            THEN [err |-> "LimitExceeded", items |-> e]
            ELSE [err |-> "none",
                  items |-> Put(e, item.name, Get(e, item.name) + 1)]

\* Order.add_item: the stock check, then the cap check, then the insert.
add_item(stk, d, item) ==
    LET s == stock_for_item(stk, item)
    IN IF s.err # "none" THEN [err |-> s.err, items |-> d]
       ELSE IF s.value = 0 THEN [err |-> "OutOfStock", items |-> d]
       ELSE IF Has(d, item.name)
            THEN IF Get(d, item.name) = MAX_ITEM_COUNT
                 THEN [err |-> "LimitExceeded", items |-> d]
                 ELSE [err |-> "none",
                       items |-> Put(d, item.name, Get(d, item.name) + 1)]
            ELSE [err |-> "none", items |-> Put(d, item.name, 1)]

\* remove_item that always decrements and never deletes the key.
remove_item_keep_zero(d, item) ==
    IF ~Has(d, item.name) THEN [err |-> "NotInOrder", items |-> d]
    ELSE [err |-> "none", items |-> Put(d, item.name, Get(d, item.name) - 1)]

\* remove_item that deletes the key whatever its count.
remove_item_drops_all(d, item) ==
    IF ~Has(d, item.name) THEN [err |-> "NotInOrder", items |-> d]
    ELSE [err |-> "none", items |-> Del(d, item.name)]

\* Order.remove_item: decrement, or delete the key at count 1.
remove_item(d, item) ==
    IF ~Has(d, item.name) THEN [err |-> "NotInOrder", items |-> d]
    ELSE IF Get(d, item.name) > 1
         THEN [err |-> "none", items |-> Put(d, item.name, Get(d, item.name) - 1)]
         ELSE [err |-> "none", items |-> Del(d, item.name)]

\* ------------------------------------------------------------ front-ends
\* The finalise loop selling one of each line instead of its count.
RECURSIVE sell_order_one_each(_, _, _, _)
sell_order_one_each(items, stk, d, i) ==
    IF i > Len(d) THEN [err |-> "none", stock |-> stk]
    ELSE LET found == item_named(items, d[i].name)
         IN IF found.err # "none" THEN [err |-> found.err, stock |-> stk]
            ELSE LET sold == sell_item(stk, found.item, 1)
                 IN IF sold.err # "none" THEN sold
                    ELSE sell_order_one_each(items, sold.stock, d, i + 1)

\* finalise_order / finalise_order_button_clicked: the loop
\* `for item_name in self._order.items.keys()`, from entry i; it stops at the
\* first lookup that raises and keeps the stock sold so far.
RECURSIVE sell_order_from(_, _, _, _)
sell_order_from(items, stk, d, i) ==
    IF i > Len(d) THEN [err |-> "none", stock |-> stk]
    ELSE LET found == item_named(items, d[i].name)
         IN IF found.err # "none" THEN [err |-> found.err, stock |-> stk]
            ELSE LET sold == sell_item(stk, found.item, d[i].count)
                 IN IF sold.err # "none" THEN sold
                    ELSE sell_order_from(items, sold.stock, d, i + 1)

\* A finalise handler that puts the stock back when a line fails.
finalise_order_atomic(items, stk, d) ==
    LET sold == sell_order_from(items, stk, d, 1)
        total == order_total(items, d)
    IN IF sold.err # "none"
       THEN [err |-> sold.err, stock |-> stk, items |-> d, value |-> 0]
       ELSE IF total.err # "none"
            THEN [err |-> total.err, stock |-> stk, items |-> d, value |-> 0]
            ELSE [err |-> "none", stock |-> sold.stock, items |-> <<>>,
                  value |-> total.value]

\* The whole handler: sell every line, format the total of the old order,
\* replace the order by Order(menu). An exception leaves the order in place.
finalise_order(items, stk, d) ==
    LET sold == sell_order_from(items, stk, d, 1)
        total == order_total(items, d)
    IN IF sold.err # "none"
       THEN [err |-> sold.err, stock |-> sold.stock, items |-> d, value |-> 0]
       ELSE IF total.err # "none"
            THEN [err |-> total.err, stock |-> sold.stock, items |-> d, value |-> 0]
            ELSE [err |-> "none", stock |-> sold.stock, items |-> <<>>,
                  value |-> total.value]

\* The items a front-end can hand to the order: items_in_category(c)[index].
Selectable ==
    {items_in_category(menu_items, c)[i] :
        <<c, i>> \in {p \in MenuCategory \X (1..Len(menu_items)) :
                        p[2] <= Len(items_in_category(menu_items, p[1]))}}

Call(op, item, count, result, value) ==
    [op |-> op, item |-> item, count |-> count, result |-> result, value |-> value]

StockInBounds(stk) ==
    \A n \in DOMAIN stk : stk[n] >= -MaxDebt /\ stk[n] <= STOCK + MaxSurplus

\* History: the units sold so far, s, with the counts of a finalised order d.
Finalised(s, d) ==
    [n \in DOMAIN s |-> s[n] + (IF Has(d, n) THEN Get(d, n) ELSE 0)]

\* main: menu = read_menu(); order = Order(menu); CafeProgram(menu, order)
Init ==
    /\ menu_items = MenuFile
    /\ stock = post_init(MenuFile)
    /\ order_items = <<>>
    /\ last = Call("init", "-", 0, "none", 0)
    /\ before = <<>>
    /\ round_trip = FALSE
    /\ units_sold = [n \in DOMAIN stock |-> 0]
    /\ NoFront

\* An add handler that takes the added unit out of the stock at once.
AddItem_reserving(item) ==
    LET r == add_item(stock, order_items, item)
    IN /\ order_items' = r.items
       /\ last' = Call("add_item", item.name, 0, r.err, 0)
       /\ before' = order_items
       /\ UNCHANGED units_sold
       /\ UNCHANGED front
       /\ round_trip' = FALSE
       /\ stock' = IF r.err = "none"
                   THEN [stock EXCEPT ![item.name] = stock[item.name] - 1]
                   ELSE stock
       /\ UNCHANGED menu_items

\* run, case 1 / add_item_from_combobox: self._order.add_item(item)
AddItem(item) ==
    LET r == add_item(stock, order_items, item)
    IN /\ order_items' = r.items
       /\ last' = Call("add_item", item.name, 0, r.err, 0)
       /\ before' = order_items
       /\ UNCHANGED units_sold
       /\ UNCHANGED front
       /\ round_trip' = FALSE
       /\ UNCHANGED <<menu_items, stock>>

\* run, case 2 / remove_item_from_combobox: self._order.remove_item(item)
RemoveItem(item) ==
    LET r == remove_item(order_items, item)
    IN /\ order_items' = r.items
       /\ last' = Call("remove_item", item.name, 0, r.err, 0)
       /\ before' = order_items
       /\ UNCHANGED units_sold
       /\ UNCHANGED front
       /\ round_trip' = (last.op = "add_item" /\ last.item = item.name
                          /\ last.result = "none")
       /\ UNCHANGED <<menu_items, stock>>

\* print(self._order) / update_ui: str(order) reads Order.order_total
OrderTotal ==
    LET r == order_total(menu_items, order_items)
    IN /\ last' = Call("order_total", "-", 0, r.err, r.value)
       /\ before' = order_items
       /\ UNCHANGED units_sold
       /\ UNCHANGED front
       /\ round_trip' = FALSE
       /\ UNCHANGED <<menu_items, stock, order_items>>

\* finalise_order (text) / finalise_order_button_clicked with the dialog accepted
Finalise ==
    LET r == finalise_order(menu_items, stock, order_items)
    IN /\ StockInBounds(r.stock)
       /\ stock' = r.stock
       /\ order_items' = r.items
       /\ last' = Call("finalise", "-", 0, r.err, r.value)
       /\ before' = order_items
       /\ units_sold' = IF r.err = "none"
                        THEN Finalised(units_sold, order_items)
                        ELSE units_sold
       /\ UNCHANGED front
       /\ round_trip' = FALSE
       /\ UNCHANGED menu_items

\* Menu.sell_item called directly by a user of the model
SellCounts == {-1, 0, 1, MAX_ITEM_COUNT, STOCK}

SellItem(item, count) ==
    LET r == sell_item(stock, item, count)
    IN /\ StockInBounds(r.stock)
       /\ stock' = r.stock
       /\ last' = Call("sell_item", item.name, count, r.err, 0)
       /\ before' = order_items
       /\ units_sold' = IF r.err = "none"
                        THEN [units_sold EXCEPT ![item.name] = units_sold[item.name] + count]
                        ELSE units_sold
       /\ UNCHANGED front
       /\ round_trip' = FALSE
       /\ UNCHANGED <<menu_items, order_items>>

\* The program: one menu, one active order, driven by a front-end.
Next ==
    \/ \E item \in Selectable : AddItem(item)
    \/ \E item \in Selectable : RemoveItem(item)
    \/ OrderTotal
    \/ Finalise

Spec == Init /\ [][Next]_vars

\* The domain model used as a library: the same calls, and sell_item direct.
NextCore ==
    \/ Next
    \/ \E item \in Selectable, count \in SellCounts : SellItem(item, count)

SpecCore == Init /\ [][NextCore]_vars

\* ------------------------------------------- the model called by any caller
\* A MenuItem that is not on this menu (an item of another catalog).
Tea == [name |-> "Tea", price |-> 300, category |-> "DRINKS"]

\* The items and names a caller of the model can pass.
AnyItem == Selectable \cup {Tea}

AnyName == {it.name : it \in AnyItem}

\* Menu.item_named(name), a read query; `found` is the item returned.
ItemNamed(name) ==
    LET r == item_named(menu_items, name)
    IN /\ last' = [op |-> "item_named", item |-> name, count |-> 0,
                   result |-> r.err, value |-> 0, found |-> r.item]
       /\ before' = order_items
       /\ UNCHANGED units_sold
       /\ UNCHANGED front
       /\ round_trip' = FALSE
       /\ UNCHANGED <<menu_items, stock, order_items>>

\* Menu.items_in_category(category), a read query; value is len(result).
ItemsInCategory(category) ==
    LET r == items_in_category(menu_items, category)
    IN /\ last' = Call("items_in_category", category, 0, "none", Len(r))
       /\ before' = order_items
       /\ UNCHANGED units_sold
       /\ UNCHANGED front
       /\ round_trip' = FALSE
       /\ UNCHANGED <<menu_items, stock, order_items>>

\* Menu.stock_for_item(item), a read query.
StockForItem(item) ==
    LET r == stock_for_item(stock, item)
    IN /\ last' = Call("stock_for_item", item.name, 0, r.err, r.value)
       /\ before' = order_items
       /\ UNCHANGED units_sold
       /\ UNCHANGED front
       /\ round_trip' = FALSE
       /\ UNCHANGED <<menu_items, stock, order_items>>

\* Every operation of Menu and Order, with items on and off the menu.
NextAny ==
    \/ NextCore
    \/ AddItem(Tea)
    \/ RemoveItem(Tea)
    \/ \E count \in SellCounts : SellItem(Tea, count)
    \/ \E name \in AnyName : ItemNamed(name)
    \/ \E category \in MenuCategory : ItemsInCategory(category)
    \/ \E item \in AnyItem : StockForItem(item)

SpecAny == Init /\ [][NextAny]_vars

\* --------------------------------- the finalise handler on any order mapping
\* The longest order mapping handed to the handler.
MaxLines == 3

\* Order.items hands out the dict itself: the mappings a caller can leave in
\* it, names on and off the menu, each name once, counts 1..MAX_ITEM_COUNT.
AnyOrder ==
    {d \in UNION {[1..n -> [name : AnyName, count : 1..MAX_ITEM_COUNT]] : n \in 0..MaxLines} :
        \A i, j \in 1..Len(d) : d[i].name = d[j].name => i = j}

InitLines ==
    /\ menu_items = MenuFile
    /\ stock = post_init(MenuFile)
    /\ order_items \in AnyOrder
    /\ last = Call("init", "-", 0, "none", 0)
    /\ before = <<>>
    /\ round_trip = FALSE
    /\ units_sold = [n \in DOMAIN stock |-> 0]
    /\ NoFront

NextLines ==
    \/ Finalise
    \/ OrderTotal

SpecLines == InitLines /\ [][NextLines]_vars

\* ------------------------------------------------ Menu built from any list
\* The longest item list a Menu is built from.
MaxMenuLen == 3

\* A second item that carries the name Coffee (menu.txt may repeat a name).
CoffeeLarge == [name |-> "Coffee", price |-> 500, category |-> "RICE"]

\* The item lists read_menu can hand to Menu(...).
Menus == UNION {[1..n -> {Coffee, Pie, CoffeeLarge}] : n \in 0..MaxMenuLen}

InitMenu ==
    /\ menu_items \in Menus
    /\ stock = post_init(menu_items)
    /\ order_items = <<>>
    /\ last = Call("init", "-", 0, "none", 0)
    /\ before = <<>>
    /\ round_trip = FALSE
    /\ units_sold = [n \in DOMAIN stock |-> 0]
    /\ NoFront

NextMenu ==
    \/ \E name \in {"Coffee", "Pie", "Tea"} : ItemNamed(name)
    \/ \E category \in MenuCategory : ItemsInCategory(category)

SpecMenu == InitMenu /\ [][NextMenu]_vars

\* ---------------------------------------------------------- format_price
\* Text is a sequence of one-character strings. Amounts are whole cents (the
\* sums of two-decimal prices), which `:.2f` prints without rounding.
DigitChars == <<"0", "1", "2", "3", "4", "5", "6", "7", "8", "9">>

Digit(n) == DigitChars[n + 1]

\* str(n) for n >= 0
RECURSIVE Decimal(_)
Decimal(n) == IF n < 10 THEN <<Digit(n)>> ELSE Decimal(n \div 10) \o <<Digit(n % 10)>>

\* f"{price:.2f}": sign, whole part, point, two decimals.
Fixed2(cents) ==
    LET a == IF cents < 0 THEN -cents ELSE cents
    IN (IF cents < 0 THEN <<"-">> ELSE <<>>)
       \o Decimal(a \div 100) \o <<".">> \o <<Digit((a % 100) \div 10), Digit(a % 10)>>

\* format_price that puts the symbol in front whatever prefix says.
format_price_always_prefix(price, symbol, prefix) == symbol \o Fixed2(price)

\* format_price: f"{symbol if prefix else ''}{price:.2f}{symbol if not prefix else ''}"
format_price(price, symbol, prefix) ==
    (IF prefix THEN symbol ELSE <<>>) \o Fixed2(price)
    \o (IF ~prefix THEN symbol ELSE <<>>)

\* The largest amount formatted, in cents.
MaxAmount == 1050

Amounts == (-MaxAmount)..MaxAmount

Symbols == {<<"$">>, <<"k", "r">>}

\* The arguments of a call of format_price are drawn at the start.
InitFormat ==
    /\ menu_items = MenuFile
    /\ stock = post_init(MenuFile)
    /\ order_items = <<>>
    /\ last \in [op : {"call_format_price"}, item : {"-"}, count : {0},
                 result : {"none"}, value : Amounts, symbol : Symbols,
                 prefix : BOOLEAN, text : {<<>>}]
    /\ before = <<>>
    /\ round_trip = FALSE
    /\ units_sold = [n \in DOMAIN stock |-> 0]
    /\ NoFront

\* format_price(price, symbol, prefix) returns its text.
FormatPrice ==
    /\ last.op = "call_format_price"
    /\ last' = [last EXCEPT !.op = "format_price",
                            !.text = format_price(last.value, last.symbol, last.prefix)]
    /\ UNCHANGED <<menu_items, stock, order_items, before, round_trip, units_sold>>
    /\ UNCHANGED front

NextFormat == FormatPrice

SpecFormat == InitFormat /\ [][NextFormat]_vars

\* ------------------------------------------------------------ Order.__str__
\* In the text of an order an item name and the words "TOTAL: " are one
\* token each; "\n" ends a line.
\* __str__ building the text with `text = line + text` (last entry first).
RECURSIVE order_str_reversed(_, _, _)
order_str_reversed(d, i, text) ==
    IF i > Len(d) THEN text
    ELSE order_str_reversed(d, i + 1,
                            Decimal(d[i].count) \o <<"x", " ", d[i].name, "\n">> \o text)

\* Order.__str__: the loop `for item in self._items.keys()`, from entry i,
\* text = text + f"{count}x {item}\n".
RECURSIVE order_str_from(_, _, _)
order_str_from(d, i, text) ==
    IF i > Len(d) THEN text
    ELSE order_str_from(d, i + 1,
                        text \o Decimal(d[i].count) \o <<"x", " ", d[i].name, "\n">>)

\* Order.__str__: the item lines, "\n", "TOTAL: " and the formatted total.
order_str(items, d) ==
    LET total == order_total(items, d)
    IN IF total.err # "none" THEN [err |-> total.err, text |-> <<>>]
       ELSE [err |-> "none",
             text |-> order_str_from(d, 1, <<>>) \o <<"\n", "TOTAL: ">>
                      \o format_price(total.value, <<"$">>, TRUE)]

\* print(self._order) in run / update_ui: str(self._order)
PrintOrder ==
    LET r == order_str(menu_items, order_items)
    IN /\ last' = [op |-> "str", item |-> "-", count |-> 0, result |-> r.err,
                   value |-> 0, text |-> r.text]
       /\ before' = order_items
       /\ UNCHANGED units_sold
       /\ UNCHANGED front
       /\ round_trip' = FALSE
       /\ UNCHANGED <<menu_items, stock, order_items>>

\* The program with the order shown after a choice.
NextText ==
    \/ Next
    \/ PrintOrder

SpecText == Init /\ [][NextText]_vars

\* ------------------------------------------- the finalise button of the GUIs
\* What a handler leaves when it does nothing.
Untouched(stk, d) == [err |-> "none", stock |-> stk, items |-> d, value |-> 0]

\* Qt, main_controller_qt.py and main_single_file.py: `if result:` guards the
\* sale; a rejected dialog does nothing.
finalise_clicked_qt(items, stk, d, user_did_cancel) ==
    IF ~user_did_cancel THEN finalise_order(items, stk, d) ELSE Untouched(stk, d)

\* tkinter, main_single_file.py: `if not user_did_cancel:` guards the sale.
finalise_clicked_tkinter_single(items, stk, d, user_did_cancel) ==
    IF ~user_did_cancel THEN finalise_order(items, stk, d) ELSE Untouched(stk, d)

\* tkinter, main_controller_tkinter.py: user_did_cancel is set by the name
\* dialogs and never read; the sale and the new Order follow in every case.
finalise_clicked_tkinter(items, stk, d, user_did_cancel) ==
    finalise_order(items, stk, d)

GuiFrontEnds == {"qt", "qt_single_file", "tkinter", "tkinter_single_file"}

finalise_clicked(frontend, items, stk, d, user_did_cancel) ==
    CASE frontend \in {"qt", "qt_single_file"} ->
           finalise_clicked_qt(items, stk, d, user_did_cancel)
      [] frontend = "tkinter_single_file" ->
           finalise_clicked_tkinter_single(items, stk, d, user_did_cancel)
      [] frontend = "tkinter" ->
           finalise_clicked_tkinter(items, stk, d, user_did_cancel)

\* finalise_order_button_clicked of a GUI front-end; the user accepts the
\* name dialog or cancels it.
FinaliseClicked(frontend, user_did_cancel) ==
    LET r == finalise_clicked(frontend, menu_items, stock, order_items, user_did_cancel)
    IN /\ StockInBounds(r.stock)
       /\ stock' = r.stock
       /\ order_items' = r.items
       /\ last' = [op |-> "finalise_clicked", item |-> frontend, count |-> 0,
                   result |-> r.err, value |-> r.value,
                   cancelled |-> user_did_cancel]
       /\ before' = order_items
       /\ units_sold' = IF r.err = "none" /\ r.items = <<>>
                        THEN Finalised(units_sold, order_items)
                        ELSE units_sold
       /\ UNCHANGED front
       /\ round_trip' = FALSE
       /\ UNCHANGED menu_items

\* The GUI programs: the add and remove buttons, which all four share, and
\* the finalise button of each.
NextGui ==
    \/ \E item \in Selectable : AddItem(item)
    \/ \E item \in Selectable : RemoveItem(item)
    \/ \E frontend \in GuiFrontEnds, user_did_cancel \in BOOLEAN :
         FinaliseClicked(frontend, user_did_cancel)

SpecGui == Init /\ [][NextGui]_vars

\* -------------------------------------------- the name dialog of the Qt GUI
\* The longest text typed into a name field.
MaxNameLen == 2

\* The characters typed into a name field.
NameChars == {"A", "b", " "}

\* What a QLineEdit can hold.
Texts == UNION {[1..n -> NameChars] : n \in 0..MaxNameLen}

\* FinaliseOrderWindow.__init__, then exec(): both line edits empty, both
\* names "", both flags False, Save disabled.
FinaliseOrderWindow ==
    [pc |-> "exec",
     first_name_line_edit |-> <<>>, last_name_line_edit |-> <<>>,
     first_name |-> <<>>, last_name |-> <<>>,
     first_name_valid |-> FALSE, last_name_valid |-> FALSE,
     save_enabled |-> FALSE]

\* update_ui enabling Save as soon as one name is valid.
update_ui_either(w) ==
    [w EXCEPT !.save_enabled = w.first_name_valid \/ w.last_name_valid]

\* FinaliseOrderWindow.update_ui
update_ui(w) ==
    [w EXCEPT !.save_enabled = w.first_name_valid /\ w.last_name_valid]

\* FinaliseOrderWindow.first_textEdited(text)
first_textEdited(w, text) ==
    update_ui([w EXCEPT !.first_name_valid = Len(text) > 0, !.first_name = text])

\* FinaliseOrderWindow.last_textEdited(text)
last_textEdited(w, text) ==
    update_ui([w EXCEPT !.last_name_valid = Len(text) > 0, !.last_name = text])

\* The dialog of a finalise click has just been opened.
InitWindow ==
    /\ menu_items = MenuFile
    /\ stock = post_init(MenuFile)
    /\ order_items = <<>>
    /\ last = Call("init", "-", 0, "none", 0)
    /\ before = <<>>
    /\ round_trip = FALSE
    /\ units_sold = [n \in DOMAIN stock |-> 0]
    /\ window = FinaliseOrderWindow
    /\ ask = Absent
    /\ program = Absent

\* The user changes the first-name field: textEdited(text) is emitted.
FirstTextEdited(text) ==
    /\ window.pc = "exec"
    /\ text # window.first_name_line_edit
    /\ window' = first_textEdited([window EXCEPT !.first_name_line_edit = text], text)
    /\ UNCHANGED <<menu_items, stock, order_items, last, before, round_trip,
                   units_sold, ask, program>>

\* The user changes the last-name field.
LastTextEdited(text) ==
    /\ window.pc = "exec"
    /\ text # window.last_name_line_edit
    /\ window' = last_textEdited([window EXCEPT !.last_name_line_edit = text], text)
    /\ UNCHANGED <<menu_items, stock, order_items, last, before, round_trip,
                   units_sold, ask, program>>

\* Save, which only an enabled button passes on: buttonBox.accepted -> accept
SaveClicked ==
    /\ window.pc = "exec"
    /\ window.save_enabled
    /\ window' = [window EXCEPT !.pc = "accepted"]
    /\ UNCHANGED <<menu_items, stock, order_items, last, before, round_trip,
                   units_sold, ask, program>>

\* Cancel: buttonBox.rejected -> reject
CancelClicked ==
    /\ window.pc = "exec"
    /\ window' = [window EXCEPT !.pc = "rejected"]
    /\ UNCHANGED <<menu_items, stock, order_items, last, before, round_trip,
                   units_sold, ask, program>>

NextWindow ==
    \/ \E text \in Texts : FirstTextEdited(text)
    \/ \E text \in Texts : LastTextEdited(text)
    \/ SaveClicked
    \/ CancelClicked

SpecWindow == InitWindow /\ [][NextWindow]_vars

\* ------------------------------------------------------------ get_valid_int
\* The arguments min and max lie in -MaxInt..MaxInt.
MaxInt == 2

\* The longest line typed at a prompt.
MaxEntryLen == 2

\* The characters of a line typed at a prompt.
EntryChars == {"0", "1", "2", "-", " ", "x"}

\* The lines input() can return.
Entries == UNION {[1..n -> EntryChars] : n \in 0..MaxEntryLen}

\* user_int: int | None. None is the empty tuple, the int v is <<v>>.
None == <<>>

\* `not user_int`: None and 0 are both falsy.
not(user_int) == user_int = None \/ user_int[1] = 0

\* str.strip() of the blanks in front, which int() ignores
RECURSIVE lstrip(_)
lstrip(t) == IF t # <<>> /\ Head(t) = " " THEN lstrip(Tail(t)) ELSE t

\* and of the blanks behind
RECURSIVE rstrip(_)
rstrip(t) ==
    IF t # <<>> /\ t[Len(t)] = " " THEN rstrip(SubSeq(t, 1, Len(t) - 1)) ELSE t

\* The digits read so far, acc, and the digits t still to read.
RECURSIVE int_digits(_, _)
int_digits(t, acc) ==
    IF t = <<>> THEN acc
    ELSE int_digits(Tail(t),
                    10 * acc + (CHOOSE n \in 0..9 : DigitChars[n + 1] = Head(t)))

\* int(text): blanks around the number are ignored, one sign may lead, the
\* rest must be digits, at least one; anything else is a ValueError.
int(text) ==
    LET t == rstrip(lstrip(text))
        signed == t # <<>> /\ Head(t) \in {"-", "+"}
        body == IF signed THEN Tail(t) ELSE t
        digits == {DigitChars[n] : n \in 1..10}
    IN IF body = <<>> \/ \E i \in 1..Len(body) : body[i] \notin digits
       THEN [err |-> "ValueError", value |-> 0]
       ELSE [err |-> "none",
             value |-> IF Head(t) = "-" THEN -int_digits(body, 0)
                       ELSE int_digits(body, 0)]

\* get_valid_int whose loop tests `user_int is None`.
get_valid_int_is_none(a, entry) ==
    LET r == int(entry)
        b == IF entry = <<>> THEN a
             ELSE IF r.err # "none" THEN [a EXCEPT !.said = "Please enter a valid number."]
             ELSE IF r.value < a.min \/ r.value > a.max
                  THEN [a EXCEPT !.user_int = None]
                  ELSE [a EXCEPT !.user_int = <<r.value>>]
    IN [b EXCEPT !.entry = entry,
                 !.pc = IF b.user_int = None THEN "prompt" ELSE "returned"]

\* get_valid_int: one pass of `while not user_int` with the line typed.
\* get_valid_input asks again for an empty line; int() raises ValueError,
\* which prints the message and leaves user_int as it was; a number out of
\* bounds resets user_int to None; then the loop test decides.
get_valid_int(a, entry) ==
    LET r == int(entry)
        b == IF entry = <<>> THEN a
             ELSE IF r.err # "none" THEN [a EXCEPT !.said = "Please enter a valid number."]
             ELSE IF r.value < a.min \/ r.value > a.max
                  THEN [a EXCEPT !.user_int = None]
                  ELSE [a EXCEPT !.user_int = <<r.value>>]
    IN [b EXCEPT !.entry = entry,
                 !.pc = IF not(b.user_int) THEN "prompt" ELSE "returned"]

\* get_valid_int(prompt, min, max) has been called: user_int = None.
InitAsk ==
    /\ menu_items = MenuFile
    /\ stock = post_init(MenuFile)
    /\ order_items = <<>>
    /\ last = Call("init", "-", 0, "none", 0)
    /\ before = <<>>
    /\ round_trip = FALSE
    /\ units_sold = [n \in DOMAIN stock |-> 0]
    /\ window = Absent
    /\ ask \in [pc : {"prompt"}, min : (-MaxInt)..MaxInt, max : (-MaxInt)..MaxInt,
                 user_int : {None}, entry : {<<>>}, said : {""}]
    /\ program = Absent

\* The user types a line at the prompt.
Enter(entry) ==
    /\ ask.pc = "prompt"
    /\ ask' = get_valid_int([ask EXCEPT !.said = ""], entry)
    /\ UNCHANGED <<menu_items, stock, order_items, last, before, round_trip,
                   units_sold, window, program>>

NextAsk == \E entry \in Entries : Enter(entry)

SpecAsk == InitAsk /\ [][NextAsk]_vars

\* ------------------------------------------------ the text front-end's loop
\* MenuCategory(value): FOOD = 0, RICE = 1, DRINKS = 2
MenuCategoryByValue == <<"FOOD", "RICE", "DRINKS">>

\* main: CafeProgram(menu, order), then run() up to its first prompt.
InitRun ==
    /\ menu_items = MenuFile
    /\ stock = post_init(MenuFile)
    /\ order_items = <<>>
    /\ last = Call("init", "-", 0, "none", 0)
    /\ before = <<>>
    /\ round_trip = FALSE
    /\ units_sold = [n \in DOMAIN stock |-> 0]
    /\ window = Absent
    /\ ask = Absent
    /\ program = [is_running |-> TRUE, pc |-> "ask_for_category",
                  category |-> "-", item |-> NoItem]

\* run: `while self._is_running`, then ask_for_category(); get_valid_int
\* returns a choice of 1..len(MenuCategory).
AskForCategory(category_choice) ==
    /\ program.is_running
    /\ program.pc = "ask_for_category"
    /\ program' = [program EXCEPT !.pc = "ask_for_item",
                                  !.category = MenuCategoryByValue[category_choice]]
    /\ UNCHANGED <<menu_items, stock, order_items, last, before, round_trip,
                   units_sold, window, ask>>

\* run: ask_for_item(category); get_valid_int returns a choice of
\* 1..len(items), and never returns when the category has no items.
AskForItem(item_choice) ==
    LET items == items_in_category(menu_items, program.category)
    IN /\ program.pc = "ask_for_item"
       /\ item_choice \in 1..Len(items)
       /\ program' = [program EXCEPT !.pc = "task_choice", !.item = items[item_choice]]
       /\ UNCHANGED <<menu_items, stock, order_items, last, before, round_trip,
                      units_sold, window, ask>>

\* The task step with choice 3, Cancel, taken as leaving the program.
TaskChoice_cancel_stops(task_choice) ==
    LET r == CASE task_choice = 1 -> add_item(stock, order_items, program.item)
               [] task_choice = 2 -> remove_item(order_items, program.item)
               [] task_choice = 3 -> [err |-> "none", items |-> order_items]
        op == <<"add_item", "remove_item", "cancel">>[task_choice]
    IN /\ program.pc = "task_choice"
       /\ r.err \in {"none", "OutOfStock", "LimitExceeded", "NotInOrder"}
       /\ order_items' = r.items
       /\ last' = Call(op, program.item.name, 0, r.err, 0)
       /\ before' = order_items
       /\ program' = IF task_choice = 3
                     THEN [program EXCEPT !.pc = "stopped", !.item = NoItem,
                                          !.category = "-", !.is_running = FALSE]
                     ELSE [program EXCEPT !.pc = "purchase", !.item = NoItem,
                                          !.category = "-"]
       /\ UNCHANGED <<menu_items, stock, round_trip, units_sold, window, ask>>

\* run: the task choice 1 (add_item), 2 (remove_item) or 3 (nothing); a
\* RuntimeError is caught and printed, then the order is printed.
TaskChoice(task_choice) ==
    LET r == CASE task_choice = 1 -> add_item(stock, order_items, program.item)
               [] task_choice = 2 -> remove_item(order_items, program.item)
               [] task_choice = 3 -> [err |-> "none", items |-> order_items]
        op == <<"add_item", "remove_item", "cancel">>[task_choice]
    IN /\ program.pc = "task_choice"
       /\ r.err \in {"none", "OutOfStock", "LimitExceeded", "NotInOrder"}
       /\ order_items' = r.items
       /\ last' = Call(op, program.item.name, 0, r.err, 0)
       /\ before' = order_items
       /\ program' = [program EXCEPT !.pc = "purchase", !.item = NoItem,
                                     !.category = "-"]
       /\ UNCHANGED <<menu_items, stock, round_trip, units_sold, window, ask>>

\* run: the answer to "purchase order?"; on 'y' finalise_order, whose last
\* question is the only place that clears _is_running.
PurchaseAnswer(purchase, exit) ==
    LET r == finalise_order(menu_items, stock, order_items)
    IN /\ program.pc = "purchase"
       /\ IF purchase
          THEN /\ r.err = "none"
               /\ StockInBounds(r.stock)
               /\ stock' = r.stock
               /\ order_items' = r.items
               /\ last' = Call("finalise", "-", 0, r.err, r.value)
               /\ before' = order_items
               /\ units_sold' = Finalised(units_sold, order_items)
               /\ program' = IF exit
                             THEN [program EXCEPT !.is_running = FALSE, !.pc = "stopped"]
                             ELSE [program EXCEPT !.pc = "ask_for_category"]
          ELSE /\ ~exit
               /\ program' = [program EXCEPT !.pc = "ask_for_category"]
               /\ UNCHANGED <<stock, order_items, last, before, units_sold>>
       /\ UNCHANGED <<menu_items, round_trip, window, ask>>

NextRun ==
    \/ \E category_choice \in 1..Len(MenuCategoryByValue) : AskForCategory(category_choice)
    \/ \E item_choice \in 1..Len(menu_items) : AskForItem(item_choice)
    \/ \E task_choice \in 1..3 : TaskChoice(task_choice)
    \/ \E purchase, exit \in BOOLEAN : PurchaseAnswer(purchase, exit)

SpecRun == InitRun /\ [][NextRun]_vars

\* ================================================================ claims
\* The names the catalog keeps stock for.
Names == DOMAIN stock

\* The count of a name in an order mapping, an absent name counting as 0.
Count(d, n) == IF Has(d, n) THEN Get(d, n) ELSE 0

\* Every name other than n has the same count in d and e.
OthersSame(d, e, n) == \A m \in Names \ {n} : Count(e, m) = Count(d, m)

\* C1: for every catalog item with stock > 0 and order count < 2, add_item
\* succeeds, raises that item's count by exactly 1 and leaves every other
\* item's count unchanged.
C1_AddRaisesByOne ==
    [][\A item \in Selectable :
         (/\ last'.op = "add_item"
          /\ last'.item = item.name
          /\ stock[item.name] > 0
          /\ Count(order_items, item.name) < MAX_ITEM_COUNT)
         => (/\ last'.result = "none"
             /\ Count(order_items', item.name) = Count(order_items, item.name) + 1
             /\ OthersSame(order_items, order_items', item.name))]_vars

\* A successful add of Coffee from count 1 to 2 while Pie is in the order.
C1_Witness ==
    /\ last = Call("add_item", "Coffee", 0, "none", 0)
    /\ stock["Coffee"] > 0
    /\ Count(before, "Coffee") = 1
    /\ Count(order_items, "Coffee") = 2
    /\ Count(before, "Pie") = 1
    /\ Count(order_items, "Pie") = 1

\* C2: every key of the active order's mapping has a count in
\* 1..MAX_ITEM_COUNT (and appears once): no zero entry, no count above 2.
C2_CountsInRange ==
    /\ \A i \in 1..Len(order_items) : order_items[i].count \in 1..MAX_ITEM_COUNT
    /\ \A i, j \in 1..Len(order_items) :
         order_items[i].name = order_items[j].name => i = j

\* A remove took the last Coffee out (the key is gone) while Pie is at the cap,
\* after at least one order was finalised.
C2_Witness ==
    /\ last = Call("remove_item", "Coffee", 0, "none", 0)
    /\ Count(before, "Coffee") = 1
    /\ ~Has(order_items, "Coffee")
    /\ Count(order_items, "Pie") = MAX_ITEM_COUNT
    /\ stock["Pie"] < STOCK

\* C3 as stated: add_item on an item whose count is already 2 fails with
\* LimitExceeded and leaves the mapping unchanged.
C3_Original ==
    [][\A item \in Selectable :
         (/\ last'.op = "add_item"
          /\ last'.item = item.name
          /\ Count(order_items, item.name) = MAX_ITEM_COUNT)
         => (last'.result = "LimitExceeded" /\ order_items' = order_items)]_vars

\* C3 amended: add_item on an item whose count is already 2 and whose stock
\* is not 0 fails with LimitExceeded; whatever the stock, the mapping is
\* unchanged (with stock 0 the failure is OutOfStock).
C3_Amended ==
    [][\A item \in Selectable :
         (/\ last'.op = "add_item"
          /\ last'.item = item.name
          /\ Count(order_items, item.name) = MAX_ITEM_COUNT)
         => (/\ order_items' = order_items
             /\ stock[item.name] # 0 => last'.result = "LimitExceeded"
             /\ stock[item.name] = 0 => last'.result = "OutOfStock")]_vars

\* The third add of Coffee failed and the order is still {Coffee: 2}.
C3_Witness ==
    /\ last = Call("add_item", "Coffee", 0, "LimitExceeded", 0)
    /\ before = <<[name |-> "Coffee", count |-> 2]>>
    /\ order_items = <<[name |-> "Coffee", count |-> 2]>>

\* C4: add_item on an item whose stock is exactly 0 fails with OutOfStock
\* whatever its order count (absent, 1 or 2), and changes nothing.
C4_OutOfStockFirst ==
    [][\A item \in Selectable :
         (/\ last'.op = "add_item"
          /\ last'.item = item.name
          /\ stock[item.name] = 0)
         => (last'.result = "OutOfStock" /\ order_items' = order_items)]_vars

\* add_item failed with OutOfStock on an item that is at the cap of 2.
C4_Witness ==
    /\ last.op = "add_item"
    /\ last.result = "OutOfStock"
    /\ stock[last.item] = 0
    /\ Count(order_items, last.item) = MAX_ITEM_COUNT

\* C5: remove_item deletes the entry at count 1, decrements by exactly 1 at
\* count > 1, fails with NotInOrder when there is no entry; other items'
\* counts are unchanged in every case.
C5_RemoveCases ==
    [][\A item \in Selectable :
         (last'.op = "remove_item" /\ last'.item = item.name)
         => (/\ OthersSame(order_items, order_items', item.name)
             /\ Count(order_items, item.name) = 1
                  => (last'.result = "none" /\ ~Has(order_items', item.name))
             /\ Count(order_items, item.name) > 1
                  => (/\ last'.result = "none"
                      /\ Has(order_items', item.name)
                      /\ Get(order_items', item.name)
                           = Get(order_items, item.name) - 1)
             /\ ~Has(order_items, item.name)
                  => (last'.result = "NotInOrder" /\ order_items' = order_items))]_vars

\* A remove took Pie from 2 to 1 while Coffee stayed at 1.
C5_Witness ==
    /\ last = Call("remove_item", "Pie", 0, "none", 0)
    /\ Count(before, "Pie") = 2
    /\ Count(order_items, "Pie") = 1
    /\ Count(before, "Coffee") = 1
    /\ Count(order_items, "Coffee") = 1

\* C6: a successful add_item(item) immediately followed by remove_item(item)
\* returns the order's mapping to exactly its value before the add (an item
\* that was absent is absent again, not present with count 0).
C6_RoundTrip ==
    [][(/\ last.op = "add_item"
        /\ last.result = "none"
        /\ last'.op = "remove_item"
        /\ last'.item = last.item)
       => (last'.result = "none" /\ order_items' = before)]_vars

\* Pie was absent, was added and removed again, and is absent; Coffee kept
\* its entry.
C6_Witness ==
    /\ round_trip
    /\ last = Call("remove_item", "Pie", 0, "none", 0)
    /\ ~Has(order_items, "Pie")
    /\ order_items = <<[name |-> "Coffee", count |-> 1]>>

\* The price the catalog lists for a name.
PriceOf(n) == (CHOOSE it \in {menu_items[i] : i \in 1..Len(menu_items)} : it.name = n).price

\* The sum of price * count over a set of names of the order.
RECURSIVE SumOver(_, _)
SumOver(d, ns) ==
    IF ns = {} THEN 0
    ELSE LET n == CHOOSE n \in ns : TRUE
         IN PriceOf(n) * Get(d, n) + SumOver(d, ns \ {n})

\* C7: order_total returns the sum over the order's entries of
\* price(item) * count, 0 for an empty order.
C7_TotalIsSum ==
    last.op = "order_total"
    => (/\ last.result = "none"
        /\ last.value = SumOver(order_items, Keys(order_items))
        /\ order_items = <<>> => last.value = 0)

\* Two Coffee at 3.50 total 7.00.
C7_Witness ==
    /\ last = Call("order_total", "-", 0, "none", 700)
    /\ order_items = <<[name |-> "Coffee", count |-> 2]>>

\* C8: finalise takes exactly count off the stock of every item of the
\* order, leaves every other stock unchanged, and leaves a fresh empty order
\* on the same catalog.
C8_FinaliseSellsOrder ==
    [][last'.op = "finalise"
       => (/\ last'.result = "none"
           /\ DOMAIN stock' = DOMAIN stock
           /\ \A n \in Names : stock'[n] = stock[n] - Count(order_items, n)
           /\ order_items' = <<>>
           /\ menu_items' = menu_items)]_vars

\* An order of two Coffee was finalised with Pie not in it: Coffee's stock is
\* down by 2, Pie's is what it was, the order is empty.
C8_Witness ==
    /\ last.op = "finalise"
    /\ before = <<[name |-> "Coffee", count |-> 2]>>
    /\ order_items = <<>>
    /\ stock["Coffee"] = STOCK - 2
    /\ stock["Pie"] = STOCK

\* C9: in every run of the program no stock ever increases, and a stock
\* changes only in a finalise step.
C9_StockOnlyFalls ==
    [][/\ \A n \in Names : stock'[n] <= stock[n]
       /\ stock' # stock => last'.op = "finalise"]_vars

\* Finalise took a stock from 1 to -1.
C9_Witness ==
    /\ last.op = "finalise"
    /\ Count(before, "Coffee") = 2
    /\ stock["Coffee"] = -1

\* C10: add_item, remove_item and order_total, successful or failing, leave
\* the stock map unchanged.
C10_OrderCallsKeepStock ==
    [][last'.op \in {"add_item", "remove_item", "order_total"}
       => stock' = stock]_vars

\* Two Coffee are held in the order and the whole starting stock is still
\* there.
C10_Witness ==
    /\ last = Call("add_item", "Coffee", 0, "none", 0)
    /\ Count(order_items, "Coffee") = 2
    /\ stock["Coffee"] = STOCK

\* C11: stock may go negative: finalising an order that holds more of an
\* item than its (positive) stock leaves that stock below 0, at exactly
\* stock - count; nothing clamps it at 0.
C11_StockGoesNegative ==
    [][\A n \in Names :
         (/\ last'.op = "finalise"
          /\ stock[n] > 0
          /\ Count(order_items, n) > stock[n])
         => (stock'[n] < 0 /\ stock'[n] = stock[n] - Count(order_items, n))]_vars

\* An order of 2 Pie was finalised while Pie's stock was 1.
C11_Witness ==
    /\ last.op = "finalise"
    /\ last.result = "none"
    /\ Count(before, "Pie") = 2
    /\ stock["Pie"] = -1

\* C12: add_item compares only the catalog's counter with 0: whenever the
\* stock is not 0 and the count is below the cap the add succeeds, however
\* many the order already holds, so with stock 1 and count 1 the count
\* becomes 2.
C12_StockCheckIgnoresOrder ==
    [][\A item \in Selectable :
         (/\ last'.op = "add_item"
          /\ last'.item = item.name
          /\ stock[item.name] # 0
          /\ Count(order_items, item.name) < MAX_ITEM_COUNT)
         => (/\ last'.result = "none"
             /\ Count(order_items', item.name) = Count(order_items, item.name) + 1)]_vars

\* The order holds 2 Coffee while the catalog has 1.
C12_Witness ==
    /\ last = Call("add_item", "Coffee", 0, "none", 0)
    /\ Count(before, "Coffee") = 1
    /\ Count(order_items, "Coffee") = 2
    /\ stock["Coffee"] = 1

\* C13: sell_item(item, count) sets the item's stock to exactly
\* previous - count for every count (negative, zero, larger than the stock),
\* never fails for a catalog item, and changes no other stock.
C13_SellSubtracts ==
    [][\A item \in Selectable :
         (last'.op = "sell_item" /\ last'.item = item.name)
         => (/\ last'.result = "none"
             /\ DOMAIN stock' = DOMAIN stock
             /\ stock'[item.name] = stock[item.name] - last'.count
             /\ \A m \in Names \ {item.name} : stock'[m] = stock[m]
             /\ order_items' = order_items)]_vars

\* sell_item(Coffee, 2) took Coffee's stock from 1 to -1; Pie's stock had
\* been raised to 21 by a count of -1.
C13_Witness ==
    /\ last = Call("sell_item", "Coffee", MAX_ITEM_COUNT, "none", 0)
    /\ stock["Coffee"] = -1
    /\ stock["Pie"] = STOCK + 1

\* The four error kinds of the specification's taxonomy.
FourKinds == {"NotFound", "OutOfStock", "LimitExceeded", "NotInOrder"}

\* The operations that index the stock map with the item's name.
StockReaders == {"stock_for_item", "sell_item", "add_item"}

\* C14 as stated: every core operation, for every argument including an
\* item that is not in the catalog, returns a result or fails with one of
\* NotFound, OutOfStock, LimitExceeded, NotInOrder.
C14_Original == last.result \in FourKinds \cup {"none"}

\* C14 amended: every core operation returns a result or fails with one of
\* NotFound, OutOfStock, LimitExceeded, NotInOrder or KeyError, and KeyError
\* is raised exactly when stock_for_item, sell_item or add_item is given an
\* item whose name is not in the stock map.
C14_Amended ==
    /\ last.result \in FourKinds \cup {"none", "KeyError"}
    /\ last.result = "KeyError"
         <=> (last.op \in StockReaders /\ last.item \notin Names)
    /\ last.result = "NotFound"
         <=> (last.op = "item_named" /\ last.item \notin Names)
    /\ last.result = "NotInOrder" => last.op = "remove_item"
    /\ last.result \in {"OutOfStock", "LimitExceeded"} => last.op = "add_item"

\* add_item of an item of another catalog ended in KeyError, order untouched.
C14_Witness ==
    /\ last.op = "add_item"
    /\ last.item = "Tea"
    /\ last.result = "KeyError"
    /\ order_items = before
    /\ Len(order_items) = 2

\* The names on the menu's item list.
MenuNames == {menu_items[i].name : i \in 1..Len(menu_items)}

\* The lines of d whose name is not on the menu.
UnknownLines(d) == {i \in 1..Len(d) : d[i].name \notin MenuNames}

\* The first such line.
FirstUnknown(d) == CHOOSE i \in UnknownLines(d) : \A j \in UnknownLines(d) : i <= j

\* What the lines of d before line k hold of name n.
CountBefore(d, k, n) ==
    IF \E i \in 1..(k - 1) : d[i].name = n
    THEN d[CHOOSE i \in 1..(k - 1) : d[i].name = n].count
    ELSE 0

\* C15: finalise is not atomic: when a line's name is not found in the
\* catalog the handler fails with NotFound, the stock taken for the lines
\* before it stays taken, the lines after it are not sold, and the order is
\* not replaced.
C15_FinaliseNotAtomic ==
    [][(last'.op = "finalise" /\ UnknownLines(order_items) # {})
       => (/\ last'.result = "NotFound"
           /\ order_items' = order_items
           /\ \A n \in Names :
                stock'[n] = stock[n]
                            - CountBefore(order_items, FirstUnknown(order_items), n))]_vars

\* Finalise of {Coffee: 2, Tea: 1, Pie: 1} failed at Tea: Coffee's stock is
\* down by 2, Pie's is untouched, the order is still there.
C15_Witness ==
    /\ last.op = "finalise"
    /\ last.result = "NotFound"
    /\ order_items = <<[name |-> "Coffee", count |-> 2],
                       [name |-> "Tea", count |-> 1],
                       [name |-> "Pie", count |-> 1]>>
    /\ before = order_items
    /\ stock["Coffee"] = STOCK - 2
    /\ stock["Pie"] = STOCK

\* C16: immediately after Menu construction from any list of items, the
\* keys of the stock map are exactly the names of the item list and every
\* value is 20.
C16_StockAfterConstruction ==
    last.op = "init"
    => (/\ DOMAIN stock = MenuNames
        /\ \A n \in DOMAIN stock : stock[n] = STOCK)

\* A menu that lists the name Coffee twice has one Coffee entry, of 20.
C16_Witness ==
    /\ last.op = "init"
    /\ menu_items = <<Coffee, Pie, CoffeeLarge>>
    /\ DOMAIN stock = {"Coffee", "Pie"}
    /\ stock["Coffee"] = STOCK

\* The positions of the item list that carry the name n.
Positions(n) == {i \in 1..Len(menu_items) : menu_items[i].name = n}

\* C17: item_named(name) returns the first item of the list whose name
\* equals name, fails with NotFound if and only if no item has that name,
\* and changes no state.
C17_ItemNamedFirst ==
    /\ [](last.op = "item_named"
          => (/\ last.result = "NotFound" <=> Positions(last.item) = {}
              /\ last.result \in {"none", "NotFound"}
              /\ Positions(last.item) # {}
                   => \E i \in Positions(last.item) :
                        /\ \A j \in Positions(last.item) : i <= j
                        /\ last.found = menu_items[i]))
    /\ [][last'.op = "item_named"
          => UNCHANGED <<menu_items, stock, order_items>>]_vars

\* item_named("Coffee") on <<Pie, CoffeeLarge, Coffee>> returned CoffeeLarge.
C17_Witness ==
    /\ last.op = "item_named"
    /\ last.item = "Coffee"
    /\ menu_items = <<Pie, CoffeeLarge, Coffee>>
    /\ last.found = CoffeeLarge

\* The value of a digit character.
DigitValue(c) == CHOOSE n \in 0..9 : DigitChars[n + 1] = c

IsDigit(c) == \E n \in 0..9 : DigitChars[n + 1] = c

\* The number a sequence of digit characters writes.
RECURSIVE Numeral(_)
Numeral(t) ==
    IF t = <<>> THEN 0
    ELSE 10 * Numeral(SubSeq(t, 1, Len(t) - 1)) + DigitValue(t[Len(t)])

\* t writes the amount of cents with a whole part, a point and exactly two
\* decimals (a leading "-" for a negative amount).
WritesCents(t, cents) ==
    LET neg == t # <<>> /\ t[1] = "-"
        u == IF neg THEN Tail(t) ELSE t
        n == Len(u)
    IN /\ n >= 4
       /\ u[n - 2] = "."
       /\ \A i \in (1..n) \ {n - 2} : IsDigit(u[i])
       /\ neg <=> cents < 0
       /\ (IF neg THEN -1 ELSE 1)
            * (100 * Numeral(SubSeq(u, 1, n - 3)) + Numeral(SubSeq(u, n - 1, n)))
          = cents

\* C19: format_price writes the amount with exactly two decimals, with the
\* symbol in front of the number when prefix is true and behind it when
\* prefix is false, never on both sides and never on neither.
C19_FormatPrice ==
    last.op = "format_price"
    => LET t == last.text
           k == Len(last.symbol)
           n == Len(t)
       IN /\ n > k
          /\ last.prefix => (/\ SubSeq(t, 1, k) = last.symbol
                             /\ WritesCents(SubSeq(t, k + 1, n), last.value))
          /\ ~last.prefix => (/\ SubSeq(t, n - k + 1, n) = last.symbol
                              /\ WritesCents(SubSeq(t, 1, n - k), last.value))

\* 7.00 with "$" in front gives "$7.00".
C19_Witness ==
    /\ last.op = "format_price"
    /\ last.value = 700
    /\ last.symbol = <<"$">>
    /\ last.prefix
    /\ last.text = <<"$", "7", ".", "0", "0">>

\* The lines of a text: the pieces between its "\n" tokens.
RECURSIVE SplitLines(_)
SplitLines(t) ==
    IF \A i \in 1..Len(t) : t[i] # "\n" THEN <<t>>
    ELSE LET k == CHOOSE i \in 1..Len(t) :
                    t[i] = "\n" /\ \A j \in 1..(i - 1) : t[j] # "\n"
         IN <<SubSeq(t, 1, k - 1)>> \o SplitLines(SubSeq(t, k + 1, Len(t)))

\* The item names of the item lines of the order's text, top to bottom.
LineNames(items, d) ==
    LET ls == SplitLines(order_str(items, d).text)
    IN [i \in 1..(Len(ls) - 2) |-> ls[i][Len(ls[i])]]

\* s without the name n.
Without(s, n) == SelectSeq(s, LAMBDA x : x # n)

\* C18: the text of an order is one line "{count}x {name}" per entry, an
\* empty line, and "TOTAL: " with the formatted total; the item lines stand
\* in the order in which the present entries were inserted: a new entry goes
\* to the bottom, a changed count keeps its line's place, a deleted entry
\* leaves the others in place, so an item removed to zero and added again
\* moves to the end.
C18_OrderText ==
    /\ [](last.op = "str"
          => LET ls == SplitLines(last.text)
                 n == Len(order_items)
             IN /\ last.result = "none"
                /\ Len(ls) = n + 2
                /\ \A i \in 1..n :
                     ls[i] = Decimal(order_items[i].count)
                             \o <<"x", " ", order_items[i].name>>
                /\ ls[n + 1] = <<>>
                /\ Len(ls[n + 2]) > 2
                /\ ls[n + 2][1] = "TOTAL: "
                /\ ls[n + 2][2] = "$"
                /\ WritesCents(SubSeq(ls[n + 2], 3, Len(ls[n + 2])),
                               SumOver(order_items, Keys(order_items))))
    /\ [][LET old == LineNames(menu_items, order_items)
              new == LineNames(menu_items', order_items')
          IN /\ (last'.op = "add_item" /\ last'.result = "none"
                   /\ ~Has(order_items, last'.item))
                => new = Append(old, last'.item)
             /\ (last'.op = "add_item"
                   /\ (last'.result # "none" \/ Has(order_items, last'.item)))
                => new = old
             /\ (last'.op = "remove_item" /\ last'.result = "none"
                   /\ Count(order_items, last'.item) = 1)
                => new = Without(old, last'.item)
             /\ (last'.op = "remove_item"
                   /\ (last'.result # "none" \/ Count(order_items, last'.item) > 1))
                => new = old
             /\ last'.op \in {"order_total", "str"} => new = old
             /\ last'.op = "finalise" => new = <<>>]_vars

\* The order {Pie: 1, Coffee: 2}, Pie inserted first, is shown as
\* "1x Pie", "2x Coffee", "", "TOTAL: $11.20".
C18_Witness ==
    /\ last.op = "str"
    /\ order_items = <<[name |-> "Pie", count |-> 1], [name |-> "Coffee", count |-> 2]>>
    /\ last.text = <<"1", "x", " ", "Pie", "\n", "2", "x", " ", "Coffee", "\n", "\n",
                     "TOTAL: ", "$", "1", "1", ".", "2", "0">>

\* C20: in every GUI front-end, when the user cancels the finalise name
\* dialog, nothing is sold and the active order is kept: stock and the
\* order's mapping are the same after the handler as before it.
C20_CancelKeepsOrder ==
    [][(last'.op = "finalise_clicked" /\ last'.cancelled)
       => (stock' = stock /\ order_items' = order_items)]_vars

\* The same statement for the three front-ends that guard the sale.
C20_GuardedFrontEnds ==
    [][(last'.op = "finalise_clicked" /\ last'.cancelled /\ last'.item # "tkinter")
       => (stock' = stock /\ order_items' = order_items)]_vars

\* C24: in every reachable state of the program (one catalog, one active
\* order, the operations add_item, remove_item and finalise), every item
\* present in the active order has a stock different from 0.
C24_OrderedItemsHaveStock ==
    \A n \in Keys(order_items) : n \in DOMAIN stock /\ stock[n] # 0

\* Coffee is in the order while Pie, sold out, has just been refused.
C24_Witness ==
    /\ Has(order_items, "Coffee")
    /\ stock["Pie"] = 0
    /\ stock["Coffee"] < 0
    /\ last.op = "add_item" /\ last.item = "Pie" /\ last.result = "OutOfStock"

\* C25: in every reachable state of the program every key of the active
\* order's mapping is the name of a catalog item and a key of the stock map,
\* so order_total and the finalise loop never fail with NotFound or KeyError
\* when driven through the front-ends.
C25_OrderKeysInCatalog ==
    /\ \A n \in Keys(order_items) : n \in MenuNames /\ n \in DOMAIN stock
    /\ order_total(menu_items, order_items).err = "none"
    /\ finalise_order(menu_items, stock, order_items).err = "none"
    /\ last.op \in {"order_total", "finalise"} => last.result = "none"

\* An order of both items has been finalised without an error.
C25_Witness ==
    /\ last.op = "finalise" /\ last.result = "none"
    /\ Keys(before) = {"Coffee", "Pie"}
    /\ order_items = <<>>

\* C26: stock 0 is absorbing. From a state where an item's stock is exactly 0,
\* every step of the program leaves that stock at 0 and the item out of the
\* order, and every add_item for that item fails with OutOfStock.
C26_ZeroIsAbsorbing ==
    [][\A n \in DOMAIN stock :
         stock[n] = 0 =>
           /\ stock'[n] = 0
           /\ ~Has(order_items, n) /\ ~Has(order_items', n)
           /\ (last'.op = "add_item" /\ last'.item = n) => last'.result = "OutOfStock"
      ]_vars

\* Pie is sold out, was refused, and the program went on to sell Coffee.
C26_Witness ==
    /\ stock["Pie"] = 0
    /\ stock["Coffee"] = 1
    /\ last.op = "add_item" /\ last.item = "Pie" /\ last.result = "OutOfStock"
    /\ Has(order_items, "Coffee")

\* C27: once an item's stock is below 0 it stays below 0 and never rises;
\* add_item for that item no longer fails with OutOfStock, only the cap of
\* MAX_ITEM_COUNT refuses it; and finalise takes the ordered count off the
\* negative stock, so the item keeps being sold.
C27_NegativeStaysNegative ==
    [][\A n \in DOMAIN stock :
         stock[n] < 0 =>
           /\ stock'[n] < 0 /\ stock'[n] <= stock[n]
           /\ (last'.op = "add_item" /\ last'.item = n) =>
                 last'.result = IF Count(order_items, n) = MAX_ITEM_COUNT
                                THEN "LimitExceeded" ELSE "none"
           /\ last'.op = "finalise" =>
                 /\ last'.result = "none"
                 /\ stock'[n] = stock[n] - Count(order_items, n)
      ]_vars

\* Coffee, already below 0, was ordered and sold again.
C27_Witness ==
    /\ stock["Coffee"] < -1
    /\ last.op = "finalise" /\ last.result = "none"
    /\ Count(before, "Coffee") > 0

\* C28: stock bookkeeping is conserved. In every state of the program and for
\* every item, STOCK minus the current stock is the sum of that item's counts
\* over the orders finalised so far; units added and removed again, or still
\* in the active order, count for nothing.
C28_StockConserved ==
    /\ DOMAIN units_sold = DOMAIN stock
    /\ \A n \in DOMAIN stock : STOCK - stock[n] = units_sold[n]

\* Orders have been finalised, a unit has just been removed again, and the
\* active order still holds an item.
C28_Witness ==
    /\ units_sold["Coffee"] = 3
    /\ units_sold["Pie"] = 1
    /\ last.op = "remove_item" /\ last.item = "Coffee" /\ last.result = "none"
    /\ Has(order_items, "Pie")

\* C29: every add_item or remove_item call that fails (OutOfStock,
\* LimitExceeded, NotInOrder, or KeyError for an item the catalog does not
\* know) leaves the order's mapping and the stock map exactly as they were
\* before the call.
C29_FailedCallChangesNothing ==
    [][(last'.op \in {"add_item", "remove_item"} /\ last'.result # "none") =>
          /\ order_items' = order_items
          /\ stock' = stock
          /\ last'.result \in {"OutOfStock", "LimitExceeded", "NotInOrder", "KeyError"}
      ]_vars

\* add_item of an item off the menu failed on a non-empty order.
C29_Witness ==
    /\ last.op = "add_item" /\ last.item = "Tea" /\ last.result = "KeyError"
    /\ order_items # <<>>
    /\ order_items = before

\* C21: in the Qt name dialog, after any sequence of edits, Save is enabled
\* exactly when the latest text of both fields is non-empty (so it is
\* disabled when the dialog opens), the names kept are those latest texts,
\* and an accepted dialog carries a non-empty first_name and last_name.
C21_SaveNeedsBothNames ==
    LET filled == /\ Len(window.first_name_line_edit) > 0
                  /\ Len(window.last_name_line_edit) > 0
    IN /\ window.save_enabled <=> filled
       /\ window.first_name = window.first_name_line_edit
       /\ window.last_name = window.last_name_line_edit
       /\ window.pc = "accepted" =>
            Len(window.first_name) > 0 /\ Len(window.last_name) > 0

\* The dialog was accepted with two names typed.
C21_Witness ==
    /\ window.pc = "accepted"
    /\ window.first_name = <<"A", "b">>
    /\ window.last_name = <<"b">>

\* The line t is an integer that reads v: blanks aside, an optional sign and
\* then digits only.
WritesInt(t, v) ==
    \E i, j \in 1..Len(t) :
        /\ i <= j
        /\ \A k \in 1..Len(t) : (k < i \/ k > j) => t[k] = " "
        /\ LET signed == t[i] \in {"-", "+"}
               u == SubSeq(t, IF signed THEN i + 1 ELSE i, j)
           IN /\ u # <<>>
              /\ \A k \in 1..Len(u) : IsDigit(u[k])
              /\ v = (IF t[i] = "-" THEN -1 ELSE 1) * Numeral(u)

\* C22: get_valid_int(prompt, min, max) with min <= max returns at an entry
\* exactly when the entry is an integer v with min <= v <= max, and returns
\* that v; every other entry brings another prompt.
C22_AcceptsInRange ==
    [][(ask.pc = "prompt" /\ ask.min <= ask.max) =>
          /\ ask'.pc = "returned" <=> \E v \in ask.min..ask.max : WritesInt(ask'.entry, v)
          /\ ask'.pc = "returned" => WritesInt(ask'.entry, ask'.user_int[1])
      ]_vars

\* What the loop does: an in-range entry is accepted unless it is 0, the
\* value returned is the one typed, 0 is never returned.
C22_AcceptsInRangeButZero ==
    [][(ask.pc = "prompt" /\ ask.min <= ask.max) =>
          /\ ask'.pc = "returned" <=>
                \E v \in (ask.min..ask.max) \ {0} : WritesInt(ask'.entry, v)
          /\ ask'.pc = "returned" => WritesInt(ask'.entry, ask'.user_int[1])
          /\ ask'.pc = "prompt" => ask'.user_int \in {None, <<0>>}
      ]_vars

\* The entry 0, inside the bounds, has brought another prompt.
C22_ZeroRefused ==
    /\ ask.pc = "prompt"
    /\ ask.min <= 0 /\ 0 <= ask.max
    /\ ask.entry = <<"0">>
    /\ ask.user_int = <<0>>

\* C23: in the text front-end _is_running is cleared only by the step that
\* answers 'y' to the purchase question and 'y' to the exit question inside
\* finalise_order; that step finalises the order, so when run ends the last
\* change of the order is a finalise and the active order is empty, and no
\* step follows.
C23_StopsOnlyAfterFinalise ==
    [][/\ program.is_running
       /\ program'.is_running <=> program'.pc # "stopped"
       /\ ~program'.is_running =>
            /\ program.pc = "purchase"
            /\ last'.op = "finalise" /\ last'.result = "none"
            /\ before' = order_items
            /\ order_items' = <<>>
            /\ stock' = [n \in DOMAIN stock |-> stock[n] - Count(order_items, n)]
      ]_vars

\* The run has ended after an order with both items was sold.
C23_Witness ==
    /\ ~program.is_running
    /\ program.pc = "stopped"
    /\ last.op = "finalise"
    /\ Keys(before) = {"Coffee", "Pie"}
    /\ order_items = <<>>

====
